---------------------------- MODULE Spec2Model ----------------------------
(***************************************************************************)
(* FraudShieldBD Shopify app: the fraud risk check pipeline.               *)
(*                                                                         *)
(* Webhook authentication (lib/webhook-verify.js), the risk-service client *)
(* with its process-wide cache (lib/fraudshield-api.js), the order checker *)
(* (lib/order-checker.js), the Shopify helper (lib/shopify-client.js) and  *)
(* the routes that drive them (routes/webhooks.js, routes/api.js).         *)
(*                                                                         *)
(* Node runs every handler to its next await without interruption, so one  *)
(* action is one such synchronous segment: the arrival of a request up to  *)
(* the first request it has to wait for, and then the return of each       *)
(* awaited request up to the next one.  Text is a sequence of one-character*)
(* strings, so that stripping, lower-casing and substring search are       *)
(* computed as the code computes them.                                     *)
(***************************************************************************)
EXTENDS Integers, Sequences, FiniteSets, TLC

\* ------------------------------------------------------------------ bounds
MaxTasks == 2          \* requests in flight at the same time
MaxRequests == 2       \* requests received in one behaviour
MaxBodyLen == 2        \* length of a raw webhook body, in bytes
ClockStep == 150       \* seconds by which the clock advances in one step
MaxClock == 450        \* last clock value explored

\* ------------------------------------------------------- program constants
stdTTL == 300          \* new NodeCache({ stdTTL: 300, ... })
thresholdHigh == 50    \* config.risk.thresholdHigh
thresholdMedium == 70  \* config.risk.thresholdMedium
DigestLen == 4         \* length of a digest (base64 of SHA-256 has a fixed length)

\* --------------------------------------------------------------- text
Digit == {"0", "1", "2", "3", "4", "5", "6", "7", "8", "9"}
Upper == <<"A", "B", "C", "D", "E", "F", "G", "H", "I", "J", "K", "L", "M",
           "N", "O", "P", "Q", "R", "S", "T", "U", "V", "W", "X", "Y", "Z">>
LowerL == <<"a", "b", "c", "d", "e", "f", "g", "h", "i", "j", "k", "l", "m",
            "n", "o", "p", "q", "r", "s", "t", "u", "v", "w", "x", "y", "z">>

\* String.prototype.toLowerCase, one character
LowerChar(c) ==
    IF \E i \in DOMAIN Upper : Upper[i] = c
    THEN LowerL[CHOOSE i \in DOMAIN Upper : Upper[i] = c]
    ELSE c

toLowerCase(s) == [i \in DOMAIN s |-> LowerChar(s[i])]

\* String.prototype.includes
includes(s, kw) ==
    \E i \in 1..(Len(s) - Len(kw) + 1) : SubSeq(s, i, i + Len(kw) - 1) = kw

\* String.prototype.startsWith
startsWith(s, p) == Len(s) >= Len(p) /\ SubSeq(s, 1, Len(p)) = p

\* Array.prototype.join
RECURSIVE join(_, _)
join(parts, sep) ==
    IF parts = <<>> THEN <<>>
    ELSE IF Len(parts) = 1 THEN parts[1]
    ELSE parts[1] \o sep \o join(Tail(parts), sep)

\* ------------------------------------------------------ PhoneNormalizer
\* null, and the empty string where the code only tests truthiness
Null == <<>>

\* phone.replace(/[^0-9]/g, '')
IsDigit(c) == c \in Digit
StripNonDigits(s) == SelectSeq(s, IsDigit)

\* (as if the third digit could be a 2)
MatchesLocalPatternWide(s) ==
    /\ Len(s) = 11
    /\ s[1] = "0"
    /\ s[2] = "1"
    /\ s[3] \in {"2", "3", "4", "5", "6", "7", "8", "9"}
    /\ \A i \in 4..11 : s[i] \in Digit

\* /^01[3-9]\d{8}$/
MatchesLocalPattern(s) ==
    /\ Len(s) = 11
    /\ s[1] = "0"
    /\ s[2] = "1"
    /\ s[3] \in {"3", "4", "5", "6", "7", "8", "9"}
    /\ \A i \in 4..11 : s[i] \in Digit

\* (as if the leading 0 were left out of the value returned)
sanitizePhoneNoZero(phone) ==
    IF phone = Null THEN Null
    ELSE LET digits == StripNonDigits(phone)
             local == IF startsWith(digits, <<"8", "8", "0">>) /\ Len(digits) = 13
                      THEN <<"0">> \o SubSeq(digits, 4, Len(digits))
                      ELSE digits
         IN  IF MatchesLocalPattern(local) THEN Tail(local) ELSE Null

\* (as if the 880 prefix were not rewritten)
sanitizePhoneLocalOnly(phone) ==
    IF phone = Null THEN Null
    ELSE LET digits == StripNonDigits(phone)
         IN  IF MatchesLocalPattern(digits) THEN digits ELSE Null

\* FraudShieldAPI.sanitizePhone
sanitizePhone(phone) ==
    IF phone = Null THEN Null
    ELSE LET digits == StripNonDigits(phone)
             local == IF startsWith(digits, <<"8", "8", "0">>) /\ Len(digits) = 13
                      THEN <<"0">> \o SubSeq(digits, 4, Len(digits))
                      ELSE digits
         IN  IF MatchesLocalPattern(local) THEN local ELSE Null

\* sample phone texts that occur in orders and requests
PhoneA == <<"0", "1", "7", "1", "2", "3", "4", "5", "6", "7", "8">>
PhoneAIntl == <<"+", "8", "8", "0", "1", "7", "1", "2", "3", "4", "5", "6", "7", "8">>
PhoneB == <<"0", "1", "9", "1", "2", "3", "4", "5", "6", "7", "8">>
PhoneShort == <<"0", "1", "7", "1", "2", "3">>
PhoneIntlDigits == <<"8", "8", "0", "1", "7", "1", "2", "3", "4", "5", "6", "7", "8">>
PhoneSpaced == <<"0", "1", "7", " ", "1", "2", "3", "4", "-", "5", "6", "7", "8">>
PhoneLandline == <<"0", "2", "7", "1", "2", "3", "4", "5", "6", "7", "8">>
PhoneOldPrefix == <<"0", "1", "2", "1", "2", "3", "4", "5", "6", "7", "8">>
PhoneIntlOldPrefix == <<"8", "8", "0", "1", "2", "1", "2", "3", "4", "5", "6", "7", "8">>
PhoneTwelve == <<"0", "1", "7", "1", "2", "3", "4", "5", "6", "7", "8", "9">>
PhoneThirteen == <<"0", "1", "7", "1", "2", "3", "4", "5", "6", "7", "8", "9", "0">>
PhoneIntlTwelve == <<"8", "8", "0", "1", "7", "1", "2", "3", "4", "5", "6", "7">>
PhoneLetters == <<"n", "/", "a">>


\* ------------------------------------------------- WebhookAuthenticator
apiSecret == 1         \* config.shopify.apiSecret, the shared secret

Byte == {1, 2}
RawBodies == UNION {[1..n -> Byte] : n \in 0..MaxBodyLen}

DigestChar == <<"A", "B", "C">>

RECURSIVE BodyCode(_)
BodyCode(body) ==
    IF body = <<>> THEN 0
    ELSE BodyCode(SubSeq(body, 1, Len(body) - 1)) * 3 + body[Len(body)]

RECURSIVE Pow3(_)
Pow3(n) == IF n = 0 THEN 1 ELSE 3 * Pow3(n - 1)

\* crypto.createHmac('sha256', secret).update(rawBody, 'utf8').digest('base64'):
\* a keyed digest of fixed length; distinct bodies of the model get distinct
\* digests, as no collision of SHA-256 is known
Hmac(secret, body) ==
    LET code == (BodyCode(body) + secret) % Pow3(DigestLen)
    IN  [i \in 1..DigestLen |-> DigestChar[((code \div Pow3(DigestLen - i)) % 3) + 1]]

\* crypto.timingSafeEqual(Buffer.from(a), Buffer.from(b)): a RangeError when
\* the byte lengths differ
timingSafeEqual(a, b) ==
    IF Len(a) # Len(b) THEN "throw"
    ELSE IF a = b THEN "equal" ELSE "differ"

\* the X-Shopify-Hmac-Sha256 header as req.get returns it
NoHeader == [present |-> FALSE, val |-> <<>>]
Header(v) == [present |-> TRUE, val |-> v]

\* verifyWebhook: which way the middleware leaves
verifyWebhook(hdr, rawBody) ==
    IF ~hdr.present \/ hdr.val = <<>> THEN "missingHmac"
    ELSE IF rawBody = <<>> THEN "missingBody"
    ELSE LET hash == Hmac(apiSecret, rawBody)
             eq == timingSafeEqual(hash, hdr.val)
         IN  IF eq = "throw" THEN "throw"
             ELSE IF eq = "differ" THEN "invalidHmac"
             ELSE "next"

\* the status each exit sends; an exception thrown by a middleware is
\* answered by the framework's default error handler
VerifyStatus(v) ==
    CASE v = "missingHmac" -> 401
      [] v = "missingBody" -> 400
      [] v = "invalidHmac" -> 401
      [] v = "throw" -> 500
      [] OTHER -> 0

\* the body with its last byte changed
FlipByte(rawBody) ==
    IF rawBody = <<>> THEN <<1>>
    ELSE [rawBody EXCEPT ![Len(rawBody)] = 3 - @]

\* signature headers a caller may send with a body: none, the digest of the
\* body, the digest of a body that differs in one byte, a shorter text
HeadersFor(rawBody) ==
    { NoHeader,
      Header(Hmac(apiSecret, rawBody)),
      Header(Hmac(apiSecret, FlipByte(rawBody))),
      Header(<<"A">>) }

\* ------------------------------------------------------------- orders
Space == <<" ">>
TextCashOnDelivery == <<"C", "a", "s", "h", " ", "o", "n", " ", "D", "e", "l", "i",
                        "v", "e", "r", "y", " ", "(", "C", "O", "D", ")">>
TextBkash == <<"b", "K", "a", "s", "h">>
TextManual == <<"M", "a", "n", "u", "a", "l">>
TextCod == <<"c", "o", "d">>

\* an order as the handlers see it: a webhook payload or the platform's answer
NoOrder ==
    [isNull |-> FALSE, id |-> "none", gateway |-> <<>>, payment_gateway_names |-> <<>>,
     billing |-> Null, shipping |-> Null, customer |-> Null, phone |-> Null]
NullOrder == [NoOrder EXCEPT !.isNull = TRUE]
OrderCod ==
    [NoOrder EXCEPT !.id = "O1", !.gateway = TextCashOnDelivery, !.billing = PhoneA]
OrderPrepaid ==
    [NoOrder EXCEPT !.id = "O1", !.gateway = TextBkash,
                    !.payment_gateway_names = <<TextBkash>>, !.shipping = PhoneAIntl]
OrderNoPhone ==
    [NoOrder EXCEPT !.id = "O1", !.payment_gateway_names = <<TextBkash, TextManual>>]
OrderBadPhone ==
    [NoOrder EXCEPT !.id = "O1", !.gateway = TextCod, !.customer = PhoneShort,
                    !.phone = PhoneB]

\* server.js raw body capture: req.body = JSON.parse(data), {} when that throws.
\* The sample payloads: one byte string for each order, one for the JSON text
\* null, every other byte string is not JSON.
JSONparse(rawBody) ==
    CASE rawBody = <<1>> -> NullOrder
      [] rawBody = <<1, 1>> -> OrderCod
      [] rawBody = <<1, 2>> -> OrderPrepaid
      [] rawBody = <<2, 1>> -> OrderNoPhone
      [] rawBody = <<2, 2>> -> OrderBadPhone
      [] OTHER -> NoOrder

codKeywords ==
    { <<"c", "o", "d">>,
      <<"c", "a", "s", "h", " ", "o", "n", " ", "d", "e", "l", "i", "v", "e", "r", "y">>,
      <<"c", "a", "s", "h", "_", "o", "n", "_", "d", "e", "l", "i", "v", "e", "r", "y">>,
      <<"m", "a", "n", "u", "a", "l">>,
      <<"u0995", "u09c1", "u09b0", "u09bf", "u09af", "u09bc", "u09be", "u09b0">> }

\* OrderChecker.isCodOrder
isCodOrder(order) ==
    LET gateway == toLowerCase(order.gateway)
        paymentMethod == toLowerCase(join(order.payment_gateway_names, Space))
    IN  \E kw \in codKeywords : includes(gateway, kw) \/ includes(paymentMethod, kw)

\* (as if the shipping address were asked before the billing address)
extractPhoneShippingFirst(order) ==
    IF order.shipping # Null THEN order.shipping
    ELSE IF order.billing # Null THEN order.billing
    ELSE IF order.customer # Null THEN order.customer
    ELSE IF order.phone # Null THEN order.phone
    ELSE Null

\* OrderChecker.extractPhone
extractPhone(order) ==
    IF order.billing # Null THEN order.billing
    ELSE IF order.shipping # Null THEN order.shipping
    ELSE IF order.customer # Null THEN order.customer
    ELSE IF order.phone # Null THEN order.phone
    ELSE Null


\* --------------------------------------------------- RiskServiceClient
\* RiskCheckResult.  The fields httpStatus and forPhone are not fields of the
\* program's object: they record which response the result was built from
\* and for which phone the request was made.
Failure(kind) ==
    [success |-> FALSE, error |-> kind, riskLevel |-> "", totalParcel |-> 0,
     successParcel |-> 0, cancelledParcel |-> 0, successRatio |-> 0,
     reportCount |-> 0, couriers |-> <<>>, checkedAt |-> 0, fromCache |-> FALSE,
     httpStatus |-> 0, forPhone |-> Null]
NoResult == Failure("")

\* (as if the comparisons with the thresholds were inclusive)
classifyInclusive(total, ratio) ==
    IF total = 0 THEN "unknown"
    ELSE IF ratio <= thresholdHigh THEN "high"
    ELSE IF ratio <= thresholdMedium THEN "medium"
    ELSE "safe"

\* the branches of parseResponse that derive the risk level
classify(total, ratio) ==
    IF total = 0 THEN "unknown"
    ELSE IF ratio < thresholdHigh THEN "high"
    ELSE IF ratio < thresholdMedium THEN "medium"
    ELSE "safe"

\* response bodies of the risk service: a JSON object (absent fields have
\* the value the code defaults them to), the JSON text null, or no JSON
ObjectBody(total, ok, cancelled, ratio, reports, couriers) ==
    [kind |-> "object", total_parcel |-> total, success_parcel |-> ok,
     cancelled_parcel |-> cancelled, success_ratio |-> ratio, reports |-> reports,
     couriers |-> couriers]
BodySafe == ObjectBody(20, 16, 4, 80, 0, <<"steadfast">>)
BodyHigh == ObjectBody(10, 4, 6, 40, 1, <<>>)
EmptyObject == ObjectBody(0, 0, 0, 0, 0, <<>>)
NullBody == [EmptyObject EXCEPT !.kind = "null"]
NotJson == [EmptyObject EXCEPT !.kind = "nonjson"]

\* FraudShieldAPI.parseResponse; reading a property of null throws
parseResponse(body, phone, time) ==
    [success |-> TRUE, error |-> "",
     riskLevel |-> classify(body.total_parcel, body.success_ratio),
     totalParcel |-> body.total_parcel, successParcel |-> body.success_parcel,
     cancelledParcel |-> body.cancelled_parcel, successRatio |-> body.success_ratio,
     reportCount |-> body.reports, couriers |-> body.couriers,
     checkedAt |-> time, fromCache |-> FALSE, httpStatus |-> 200, forPhone |-> phone]

\* FraudShieldAPI.handleErrorResponse: the errorMap and its fallback
ErrorKind(code) ==
    CASE code = 400 -> "bad_request"
      [] code = 401 -> "unauthorized"
      [] code = 402 -> "no_subscription"
      [] code = 403 -> "forbidden"
      [] code = 429 -> "rate_limited"
      [] code = 502 -> "external_error"
      [] code = 503 -> "service_unavailable"
      [] OTHER -> "api_error"
handleErrorResponse(code, body) == [Failure(ErrorKind(code)) EXCEPT !.httpStatus = code]

\* what the awaited fetch of checkPhone can come back with: a response
\* (status and body), the abort of the 20 s timer, or a transport error
Response(status, body) == [how |-> "response", status |-> status, body |-> body]
Aborted == [how |-> "abort", status |-> 0, body |-> NotJson]
Refused == [how |-> "error", status |-> 0, body |-> NotJson]
NoOutcome == [how |-> "none", status |-> 0, body |-> NotJson]
RiskOutcomes ==
    { Response(200, BodySafe), Response(200, BodyHigh), Response(200, NullBody),
      Response(402, EmptyObject), Response(500, NotJson), Aborted, Refused }

\* (as if cache.set came before the test of the status)
StoresResultEarly(outcome) == outcome.how = "response" /\ outcome.body.kind = "object"

\* checkPhone from the return of fetch to its return statement (lines 72-102):
\* whether cache.set was reached, and the result
StoresResult(outcome) ==
    outcome.how = "response" /\ outcome.body.kind = "object" /\ outcome.status = 200

\* (as if the catch block did not look at the name of the error)
FetchResultNoAbortTest(outcome, phone, time) ==
    IF outcome.how # "response" THEN Failure("connection_error")
    ELSE IF outcome.body.kind # "object" THEN Failure("connection_error")
    ELSE IF outcome.status # 200 THEN handleErrorResponse(outcome.status, outcome.body)
    ELSE parseResponse(outcome.body, phone, time)

FetchResult(outcome, phone, time) ==
    IF outcome.how = "abort" THEN Failure("timeout")
    ELSE IF outcome.how = "error" THEN Failure("connection_error")
    ELSE IF outcome.body.kind # "object" THEN Failure("connection_error")
    ELSE IF outcome.status # 200 THEN handleErrorResponse(outcome.status, outcome.body)
    ELSE parseResponse(outcome.body, phone, time)

\* ---------------------------------------------------------------- cache
\* node-cache, stdTTL 300: an entry is a value and the time it expires at
Entry(value, time) == [v |-> value, t |-> time + stdTTL]

CacheDel(cch, key) == [k \in DOMAIN cch \ {key} |-> cch[k]]
\* (as if an entry that exists were kept)
CacheSetIfAbsent(cch, key, value, time) ==
    [k \in DOMAIN cch \cup {key} |->
        IF k = key /\ key \notin DOMAIN cch THEN Entry(value, time) ELSE cch[k]]

CacheSet(cch, key, value, time) ==
    [k \in DOMAIN cch \cup {key} |-> IF k = key THEN Entry(value, time) ELSE cch[k]]

\* (as if the entries had no time to live)
LiveForever(entry, time, atExpiry) == TRUE

\* whether get still serves the entry: before its expiry time it does, after
\* it does not; at the expiry time itself the comparison is node-cache's,
\* which is not part of this repository: either
Live(entry, time, atExpiry) ==
    IF time < entry.t THEN TRUE
    ELSE IF time > entry.t THEN FALSE
    ELSE atExpiry

\* cache.get: an expired entry is deleted by the read that finds it
CacheGet(cch, key, time, atExpiry) ==
    IF key \notin DOMAIN cch THEN [hit |-> FALSE, v |-> NoResult, cache |-> cch]
    ELSE IF Live(cch[key], time, atExpiry)
         THEN [hit |-> TRUE, v |-> cch[key].v, cache |-> cch]
         ELSE [hit |-> FALSE, v |-> NoResult, cache |-> CacheDel(cch, key)]

\* FraudShieldAPI.clearCache; None stands for the call without argument
None == <<"*">>

\* (as if every call flushed the cache)
clearCacheFlushes(cch, phone) == << >>

clearCache(cch, phone) ==
    IF phone = None \/ phone = Null THEN << >>
    ELSE LET cleaned == sanitizePhone(phone)
         IN  IF cleaned # Null THEN CacheDel(cch, cleaned) ELSE cch


\* ---------------------------------------------------------------- state
VARIABLES
    cfg,        \* config.behavior and whether config.fraudshield.apiKey is set
    cache,      \* the NodeCache of lib/fraudshield-api.js
    now,        \* the clock, in seconds
    tasks,      \* the requests being handled, each at its current await
    tags,       \* the platform's order: its tags,
    note,       \*   its note, a sequence of paragraphs,
    meta,       \*   and its metafields in the namespace fraudshieldbd
    served      \* the number of requests received so far

vars == <<cfg, cache, now, tasks, tags, note, meta, served>>

\* routes/auth.js shopTokens: the shops whose OAuth callback stored a token
\* before the requests of the behaviour arrive
shopTokens == {"shop-a"}
Shops == {"shop-a", "shop-b"}
getAccessToken(shop) == shop \in shopTokens

TaskIds == 1..MaxTasks

DefaultConfig ==
    [autoCheckEnabled |-> TRUE, checkCodOnly |-> TRUE, autoTagOrders |-> TRUE,
     addOrderNotes |-> TRUE, apiKey |-> TRUE]
Configs ==
    { DefaultConfig,
      [DefaultConfig EXCEPT !.autoCheckEnabled = FALSE],
      [DefaultConfig EXCEPT !.checkCodOnly = FALSE],
      [DefaultConfig EXCEPT !.autoTagOrders = FALSE, !.addOrderNotes = FALSE],
      [DefaultConfig EXCEPT !.apiKey = FALSE] }

IdleTask ==
    [kind |-> "idle", pc |-> "idle", hdr |-> NoHeader, raw |-> <<>>, order |-> NoOrder,
     key |-> Null, readAt |-> 0, result |-> NoResult, at |-> 0, pend |-> <<>>,
     out |-> "", resp |-> <<>>, log |-> <<>>, unhandled |-> FALSE,
     got |-> NoOutcome, fails |-> {}, phone |-> Null]

\* the state after start-up, for a configuration out of a set
InitWith(configs) ==
    /\ cfg \in configs
    /\ cache = << >>
    /\ now = 0
    /\ tasks = [t \in TaskIds |-> IdleTask]
    /\ tags = <<"vip">>
    /\ note = <<>>
    /\ meta = << >>
    /\ served = 0

Init == InitWith(Configs)

\* ------------------------------------------------- handler segments
Log(task, events) == [task EXCEPT !.log = @ \o events]
Done(task, outcome) == [task EXCEPT !.pc = "done", !.out = outcome]
Respond(task, status) == [task EXCEPT !.resp = Append(@, status), !.log = Append(@, "respond")]
\* an exception that leaves an async route handler: nobody awaits it
Escape(task) == [Done(task, "Crashed") EXCEPT !.unhandled = TRUE, !.log = Append(@, "throw")]

\* a call to the platform threw and the catch block around it logged it
Failed(task, threw, what) ==
    IF threw THEN [task EXCEPT !.fails = @ \cup {what}] ELSE task

\* the end of a handler; POST /api/check-order answers with the result
Finish(task, outcome) ==
    IF task.kind = "checkOrder" THEN Done(Respond(task, 200), outcome)
    ELSE Done(task, outcome)

\* saveResult, part 3: addOrderNote starts by reading the order
IssueNote(task) ==
    IF cfg.addOrderNotes THEN [Log(task, <<"orderRead">>) EXCEPT !.pc = "noteGet"]
    ELSE Finish(task, "Annotated")

\* (as if an exception of the tag step ended saveResult)
IssueMetafieldsUnlessFailed(task) ==
    IF task.fails # {} THEN Finish(task, "Annotated")
    ELSE [Log(task, <<"metaWrite">>) EXCEPT !.pc = "metafields"]

\* saveResult, part 2: the ten setOrderMetafield calls of Promise.all
IssueMetafields(task) == [Log(task, <<"metaWrite">>) EXCEPT !.pc = "metafields"]

\* saveResult, part 1: addOrderTags starts by reading the order
saveResult(task) ==
    IF cfg.autoTagOrders THEN [Log(task, <<"orderRead">>) EXCEPT !.pc = "tagGet"]
    ELSE IssueMetafields(task)

\* saveError: the three setOrderMetafield calls of Promise.all
saveError(task) == [Log(task, <<"metaWrite">>) EXCEPT !.pc = "saveError", !.at = now]

\* what the caller of checkPhone does with its result
\* (as if a Failure were saved like a Success)
AfterCheckPhoneSaveAll(task, result) ==
    LET t1 == [task EXCEPT !.result = result]
    IN  IF task.kind = "checkPhone" THEN Done(Respond(t1, 200), "Responded")
        ELSE saveResult(t1)

\* what the caller of checkPhone does with the result, up to its next await
AfterCheckPhone(task, result) ==
    LET t1 == [task EXCEPT !.result = result]
    IN  IF task.kind = "checkPhone" THEN Done(Respond(t1, 200), "Responded")
        ELSE IF ~result.success THEN saveError(t1)
        ELSE saveResult(t1)

\* (as if the key were tested before the phone)
checkPhoneKeyFirst(task, phone, cch, atExpiry) ==
    LET t1 == [Log(task, <<"checkPhone">>) EXCEPT !.phone = phone]
        key == sanitizePhone(phone)
    IN  IF ~cfg.apiKey
        THEN [task |-> AfterCheckPhone(t1, Failure("no_api_key")), cache |-> cch]
        ELSE IF key = Null
        THEN [task |-> AfterCheckPhone(t1, Failure("invalid_phone")), cache |-> cch]
        ELSE LET got == CacheGet(cch, key, now, atExpiry)
                 t2 == [Log(t1, <<"cacheGet">>) EXCEPT !.key = key, !.readAt = now]
             IN  IF got.hit
                 THEN [task |-> AfterCheckPhone(t2, [got.v EXCEPT !.fromCache = TRUE]),
                       cache |-> got.cache]
                 ELSE [task |-> [Log(t2, <<"risk">>) EXCEPT !.pc = "fetch"],
                       cache |-> got.cache]

\* checkPhone up to its first await (lines 27-70)
checkPhone(task, phone, cch, atExpiry) ==
    LET t1 == [Log(task, <<"checkPhone">>) EXCEPT !.phone = phone]
        key == sanitizePhone(phone)
    IN  IF key = Null
        THEN [task |-> AfterCheckPhone(t1, Failure("invalid_phone")), cache |-> cch]
        ELSE IF ~cfg.apiKey
        THEN [task |-> AfterCheckPhone(t1, Failure("no_api_key")), cache |-> cch]
        ELSE LET got == CacheGet(cch, key, now, atExpiry)
                 t2 == [Log(t1, <<"cacheGet">>) EXCEPT !.key = key, !.readAt = now]
             IN  IF got.hit
                 THEN [task |-> AfterCheckPhone(t2, [got.v EXCEPT !.fromCache = TRUE]),
                       cache |-> got.cache]
                 ELSE [task |-> [Log(t2, <<"risk">>) EXCEPT !.pc = "fetch"],
                       cache |-> got.cache]

\* (as if the phone were looked for before the COD test)
processOrderPhoneFirst(task, order, cch, atExpiry) ==
    IF ~cfg.autoCheckEnabled
    THEN [task |-> Done(task, "SkippedDisabled"), cache |-> cch]
    ELSE LET phone == extractPhone(order)
         IN  IF phone = Null THEN [task |-> Done(task, "SkippedNoPhone"), cache |-> cch]
             ELSE IF cfg.checkCodOnly /\ ~isCodOrder(order)
             THEN [task |-> Done(task, "SkippedNotCod"), cache |-> cch]
             ELSE checkPhone(task, phone, cch, atExpiry)

\* OrderChecker.processOrder up to its first await
processOrder(task, order, cch, atExpiry) ==
    IF ~cfg.autoCheckEnabled
    THEN [task |-> Done(task, "SkippedDisabled"), cache |-> cch]
    ELSE IF cfg.checkCodOnly /\ ~isCodOrder(order)
    THEN [task |-> Done(task, "SkippedNotCod"), cache |-> cch]
    ELSE LET phone == extractPhone(order)
         IN  IF phone = Null THEN [task |-> Done(task, "SkippedNoPhone"), cache |-> cch]
             ELSE checkPhone(task, phone, cch, atExpiry)

\* (as if manualCheck did not clear the cache)
manualCheckNoClear(task, order, cch, atExpiry) ==
    IF order.id = "none"
    THEN [task |-> Done(Respond(task, 200), "OrderNotFound"), cache |-> cch]
    ELSE LET phone == extractPhone(order)
         IN  IF phone = Null
             THEN [task |-> Done(Respond(task, 200), "NoPhone"), cache |-> cch]
             ELSE checkPhone(task, phone, cch, atExpiry)

\* (as if manualCheck went through the gates of processOrder)
manualCheckGated(task, order, cch, atExpiry) ==
    IF order.id = "none"
    THEN [task |-> Done(Respond(task, 200), "OrderNotFound"), cache |-> cch]
    ELSE IF ~cfg.autoCheckEnabled \/ (cfg.checkCodOnly /\ ~isCodOrder(order))
    THEN [task |-> Done(Respond(task, 200), "Skipped"), cache |-> cch]
    ELSE LET phone == extractPhone(order)
         IN  IF phone = Null
             THEN [task |-> Done(Respond(task, 200), "NoPhone"), cache |-> cch]
             ELSE checkPhone(Log(task, <<"cacheDel">>), phone, clearCache(cch, phone),
                             atExpiry)

\* OrderChecker.manualCheck from the return of getOrder to its next await;
\* the route answers with whatever manualCheck returns
manualCheck(task, order, cch, atExpiry) ==
    IF order.id = "none"
    THEN [task |-> Done(Respond(task, 200), "OrderNotFound"), cache |-> cch]
    ELSE LET phone == extractPhone(order)
         IN  IF phone = Null
             THEN [task |-> Done(Respond(task, 200), "NoPhone"), cache |-> cch]
             ELSE checkPhone(Log(task, <<"cacheDel">>), phone, clearCache(cch, phone),
                             atExpiry)


\* (as if the acknowledgment were left for the end of the handler)
AcknowledgeLate(task) == task

\* res.status(200).json({ received: true }), the first statement of both
\* webhook handlers
Acknowledge(task) == Respond(task, 200)

\* router.post('/orders-create') after verifyWebhook, up to its first await
ordersCreate(task, order, shop, cch, atExpiry) ==
    LET t1 == Acknowledge(task)
    IN  IF order.isNull THEN [task |-> Escape(t1), cache |-> cch]
        ELSE LET t2 == Log(t1, <<"token">>)
             IN  IF ~getAccessToken(shop) THEN [task |-> Done(t2, "NoToken"), cache |-> cch]
                 ELSE processOrder(t2, order, cch, atExpiry)

\* router.post('/orders-updated') after verifyWebhook, up to its first await;
\* with a null payload order.id throws inside the try and order.order_number
\* throws again inside the catch
ordersUpdated(task, order, shop) ==
    LET t1 == Log(Acknowledge(task), <<"token">>)
    IN  IF ~getAccessToken(shop) THEN Done(t1, "NoToken")
        ELSE IF order.isNull THEN Escape(t1)
        ELSE [Log(t1, <<"metaRead">>) EXCEPT !.pc = "metaGet"]

\* (as if any value of the field stopped the handler)
AlreadyCheckedAny(m) == "checked" \in DOMAIN m

\* (as if the field were compared with another text)
AlreadyCheckedOther(m) == "checked" \in DOMAIN m /\ m["checked"] = "true"

\* meta.checked === 'yes'
AlreadyChecked(m) == "checked" \in DOMAIN m /\ m["checked"] = "yes"

\* ------------------------------------------------------ OrderAnnotator
RiskTag(level) ==
    CASE level = "unknown" -> "fsbd:unknown"
      [] level = "high" -> "fsbd:high"
      [] level = "medium" -> "fsbd:medium"
      [] OTHER -> "fsbd:safe"

\* saveResult lines 170-175
NewTags(result) ==
    <<"FraudShieldBD", RiskTag(result.riskLevel)>>
        \o (IF result.reportCount > 0 THEN <<"fsbd:reported">> ELSE <<>>)

\* [...new Set(list)]
RECURSIVE Dedupe(_)
Dedupe(list) ==
    IF list = <<>> THEN <<>>
    ELSE LET front == Dedupe(SubSeq(list, 1, Len(list) - 1))
             last == list[Len(list)]
         IN  IF \E i \in DOMAIN front : front[i] = last THEN front ELSE Append(front, last)

\* (as if the new tags were appended to the list)
MergedTagsAppended(existing, newTags) == existing \o newTags

\* addOrderTags lines 95-96
MergedTags(existing, newTags) == Dedupe(existing \o newTags)

\* the summary paragraph saveResult composes (lines 204-220)
Summary(result) ==
    [riskLevel |-> result.riskLevel, successRatio |-> result.successRatio,
     totalParcel |-> result.totalParcel, successParcel |-> result.successParcel,
     cancelledParcel |-> result.cancelledParcel, reportCount |-> result.reportCount,
     couriers |-> result.couriers]

\* (as if the note were set to the new content)
NewNoteOverwrites(existing, content) == <<content>>

\* addOrderNote lines 110-113; paragraphs are joined by an empty line
NewNote(existing, content) ==
    IF existing # <<>> THEN existing \o <<content>> ELSE <<content>>

RiskLabel(level) ==
    CASE level = "unknown" -> "label:unknown"
      [] level = "high" -> "label:high"
      [] level = "medium" -> "label:medium"
      [] OTHER -> "label:safe"

\* (as if cancel_parcel were given the count of successes)
ResultFieldsCopied(result) ==
    [checked |-> "yes", risk_level |-> result.riskLevel,
     risk_label |-> RiskLabel(result.riskLevel), total_parcel |-> result.totalParcel,
     success_parcel |-> result.successParcel, cancel_parcel |-> result.successParcel,
     success_ratio |-> result.successRatio, report_count |-> result.reportCount,
     couriers |-> result.couriers, checked_at |-> result.checkedAt]

\* the metafields saveResult sets (lines 187-196) and saveError sets (236-238)
ResultFields(result) ==
    [checked |-> "yes", risk_level |-> result.riskLevel,
     risk_label |-> RiskLabel(result.riskLevel), total_parcel |-> result.totalParcel,
     success_parcel |-> result.successParcel, cancel_parcel |-> result.cancelledParcel,
     success_ratio |-> result.successRatio, report_count |-> result.reportCount,
     couriers |-> result.couriers, checked_at |-> result.checkedAt]
ErrorFields(result, time) ==
    [checked |-> "error", error |-> result.error, checked_at |-> time]

\* the platform after the setOrderMetafield calls that did not fail
Upsert(m, fields, failed) ==
    [k \in DOMAIN m \cup (DOMAIN fields \ failed) |->
        IF k \in DOMAIN fields \ failed THEN fields[k] ELSE m[k]]

\* which of the concurrent writes of one Promise.all fail: none, one, or all
FailureSets(fields) == {{}, DOMAIN fields} \cup {{k} : k \in {"checked", "risk_level", "error"} \cap DOMAIN fields}


\* -------------------------------------------------------------- actions
\* a request takes the first slot that handles no request
Free(t) ==
    /\ served < MaxRequests
    /\ tasks[t].pc \in {"idle", "done"}
    /\ \A u \in TaskIds : u < t => tasks[u].pc \notin {"idle", "done"}

\* no request is being handled
Quiet == \A t \in TaskIds : tasks[t].pc \in {"idle", "done"}

Put(t, step) == /\ tasks' = [tasks EXCEPT ![t] = step.task]
                /\ cache' = step.cache

Same(task) == [task |-> task, cache |-> cache]

\* POST /webhooks/orders-create and /webhooks/orders-updated: the raw body
\* capture of server.js, verifyWebhook, and the handler up to its first await
WebhookArrive(t, route, rawBody, hdr, shop, atExpiry) ==
    /\ Free(t)
    /\ served' = served + 1
    /\ LET order == JSONparse(rawBody)
           task == [IdleTask EXCEPT !.kind = route, !.hdr = hdr, !.raw = rawBody,
                                    !.order = order]
           v == verifyWebhook(hdr, rawBody)
       IN  Put(t, IF v # "next" THEN Same(Done(Respond(task, VerifyStatus(v)), "Rejected"))
                  ELSE IF route = "create"
                  THEN ordersCreate(task, order, shop, cache, atExpiry)
                  ELSE Same(ordersUpdated(task, order, shop)))
    /\ UNCHANGED <<cfg, now, tags, note, meta>>

\* getOrderMetafields returns to the orders-updated handler, or throws
MetaGetReturn(t, ok, atExpiry) ==
    /\ tasks[t].pc = "metaGet"
    /\ LET task == tasks[t]
           m == IF task.order.id = "O1" THEN meta ELSE << >>
       IN  Put(t, IF ~ok THEN Same(Done(task, "Failed"))
                  ELSE IF AlreadyChecked(m) THEN Same(Done(task, "AlreadyChecked"))
                  ELSE processOrder(task, task.order, cache, atExpiry))
    /\ UNCHANGED <<cfg, now, tags, note, meta, served>>

\* POST /api/check-order up to the getOrder of manualCheck
CheckOrderArrive(t, orderId, shop) ==
    /\ Free(t)
    /\ served' = served + 1
    /\ LET task == [IdleTask EXCEPT !.kind = "checkOrder", !.order.id = orderId]
       IN  Put(t, Same(IF orderId = "none" THEN Done(Respond(task, 400), "Rejected")
                       ELSE IF ~getAccessToken(shop) THEN Done(Respond(task, 401), "Rejected")
                       ELSE [Log(task, <<"orderRead">>) EXCEPT !.pc = "orderGet"]))
    /\ UNCHANGED <<cfg, now, tags, note, meta>>

\* getOrder returns to manualCheck: the order as the platform has it now,
\* no order, or an exception, which nothing in the route catches
OrderGetReturn(t, how, order, atExpiry) ==
    /\ tasks[t].pc = "orderGet"
    /\ how = "ok" => tasks[t].order.id = order.id
    /\ LET task == tasks[t]
       IN  Put(t, IF how = "throw" THEN Same(Escape(task))
                  ELSE IF how = "missing"
                  THEN manualCheck([task EXCEPT !.order = NoOrder], NoOrder, cache, atExpiry)
                  ELSE manualCheck([task EXCEPT !.order = order], order, cache, atExpiry))
    /\ UNCHANGED <<cfg, now, tags, note, meta, served>>

\* POST /api/check-phone
CheckPhoneArrive(t, phone, atExpiry) ==
    /\ Free(t)
    /\ served' = served + 1
    /\ LET task == [IdleTask EXCEPT !.kind = "checkPhone"]
       IN  Put(t, IF phone = Null THEN Same(Done(Respond(task, 400), "Rejected"))
                  ELSE checkPhone(task, phone, cache, atExpiry))
    /\ UNCHANGED <<cfg, now, tags, note, meta>>

\* checkPhone from the outcome of its request to its return, and what the
\* caller does with the result up to its next await
Settle(t, outcome) ==
    /\ LET task == [tasks[t] EXCEPT !.got = outcome]
           result == FetchResult(outcome, task.key, now)
       IN  IF StoresResult(outcome)
           THEN /\ cache' = CacheSet(cache, task.key, result, now)
                /\ tasks' = [tasks EXCEPT ![t] =
                                AfterCheckPhone(Log(task, <<"cacheSet">>), result)]
           ELSE /\ cache' = cache
                /\ tasks' = [tasks EXCEPT ![t] = AfterCheckPhone(task, result)]
    /\ UNCHANGED <<cfg, now, tags, note, meta, served>>

\* the awaited fetch and the awaited response.json() of checkPhone come back
RiskRespond(t, outcome) ==
    /\ tasks[t].pc = "fetch"
    /\ Settle(t, outcome)

\* POST /api/test-connection: FraudShieldAPI.testConnection up to its fetch
TestConnectionArrive(t, withKey) ==
    /\ Free(t)
    /\ served' = served + 1
    /\ LET task == [IdleTask EXCEPT !.kind = "testConnection"]
       IN  Put(t, Same(IF ~(withKey \/ cfg.apiKey) THEN Done(Respond(task, 200), "NoKey")
                       ELSE [Log(task, <<"probe">>) EXCEPT !.pc = "probe"]))
    /\ UNCHANGED <<cfg, now, tags, note, meta>>

\* testConnection lines 127-139
ProbeOutcome(outcome) ==
    IF outcome.how # "response" THEN "ProbeFailed"
    ELSE IF outcome.status = 200 THEN "ProbeOk"
    ELSE IF outcome.status = 401 THEN "ProbeUnauthorized"
    ELSE IF outcome.status = 402 THEN "ProbeNoSubscription"
    ELSE IF outcome.body.kind = "nonjson" \/ outcome.body.kind = "null" THEN "ProbeFailed"
    ELSE "ProbeOther"

\* the fetch of testConnection comes back
ProbeRespond(t, outcome) ==
    /\ tasks[t].pc = "probe"
    /\ Put(t, Same(Done(Respond(tasks[t], 200), ProbeOutcome(outcome))))
    /\ UNCHANGED <<cfg, now, tags, note, meta, served>>

\* FraudShieldAPI.clearCache called on its own
ClearCache(phone) ==
    /\ cache' = clearCache(cache, phone)
    /\ cache' # cache
    /\ UNCHANGED <<cfg, now, tasks, tags, note, meta, served>>

\* the getOrder of addOrderTags returns
TagGetReturn(t, how) ==
    /\ tasks[t].pc = "tagGet"
    /\ LET task == tasks[t]
       IN  Put(t, Same(IF how = "ok"
                       THEN [Log(task, <<"tagWrite">>) EXCEPT
                                !.pc = "tagPut",
                                !.pend = MergedTags(tags, NewTags(task.result))]
                       ELSE IssueMetafields(Failed(task, how = "throw", "tagRead"))))
    /\ UNCHANGED <<cfg, now, tags, note, meta, served>>

\* (as if the platform merged the list it is sent into the tags it has)
TagPutReturnMerging(t, ok) ==
    /\ tasks[t].pc = "tagPut"
    /\ tags' = IF ok THEN MergedTags(tags, tasks[t].pend) ELSE tags
    /\ Put(t, Same(IssueMetafields(Failed([tasks[t] EXCEPT !.pend = <<>>], ~ok,
                                           "tagWrite"))))
    /\ UNCHANGED <<cfg, now, note, meta, served>>

\* the put of addOrderTags returns
TagPutReturn(t, ok) ==
    /\ tasks[t].pc = "tagPut"
    /\ tags' = IF ok THEN tasks[t].pend ELSE tags
    /\ Put(t, Same(IssueMetafields(Failed([tasks[t] EXCEPT !.pend = <<>>], ~ok,
                                           "tagWrite"))))
    /\ UNCHANGED <<cfg, now, note, meta, served>>

\* the Promise.all of saveResult settles
MetafieldsReturn(t, failed) ==
    /\ tasks[t].pc = "metafields"
    /\ meta' = Upsert(meta, ResultFields(tasks[t].result), failed)
    /\ Put(t, Same(IssueNote(Failed(tasks[t], failed # {}, "metaWrite"))))
    /\ UNCHANGED <<cfg, now, tags, note, served>>

\* the getOrder of addOrderNote returns
NoteGetReturn(t, how) ==
    /\ tasks[t].pc = "noteGet"
    /\ LET task == tasks[t]
       IN  Put(t, Same(IF how = "ok"
                       THEN [Log(task, <<"noteWrite">>) EXCEPT
                                !.pc = "notePut",
                                !.pend = NewNote(note, Summary(task.result))]
                       ELSE Finish(Failed(task, how = "throw", "noteRead"), "Annotated")))
    /\ UNCHANGED <<cfg, now, tags, note, meta, served>>

\* the put of addOrderNote returns
NotePutReturn(t, ok) ==
    /\ tasks[t].pc = "notePut"
    /\ note' = IF ok THEN tasks[t].pend ELSE note
    /\ Put(t, Same(Finish(Failed([tasks[t] EXCEPT !.pend = <<>>], ~ok, "noteWrite"),
                           "Annotated")))
    /\ UNCHANGED <<cfg, now, tags, meta, served>>

\* the Promise.all of saveError settles
SaveErrorReturn(t, failed) ==
    /\ tasks[t].pc = "saveError"
    /\ meta' = Upsert(meta, ErrorFields(tasks[t].result, tasks[t].at), failed)
    /\ Put(t, Same(Finish(Failed(tasks[t], failed # {}, "metaWrite"), "ErrorRecorded")))
    /\ UNCHANGED <<cfg, now, tags, note, served>>

\* time passes
Tick ==
    /\ now + ClockStep <= MaxClock
    /\ now' = now + ClockStep
    /\ UNCHANGED <<cfg, cache, tasks, tags, note, meta, served>>

\* node-cache's periodic check (checkperiod: 60) deletes the expired entries
Sweep ==
    /\ \E k \in DOMAIN cache : cache[k].t < now
    /\ cache' = [k \in {j \in DOMAIN cache : ~(cache[j].t < now)} |-> cache[k]]
    /\ UNCHANGED <<cfg, now, tasks, tags, note, meta, served>>

Routes == {"create", "updated"}
PlatformOrders == {OrderCod, OrderPrepaid, OrderNoPhone, OrderBadPhone}
OrderIds == {"O1", "O404", "none"}
RequestPhones == {Null, PhoneA, PhoneAIntl, PhoneB, PhoneShort}
ReadOutcomes == {"ok", "missing", "throw"}

\* --------------------------------------------------------- specifications
\* The order pipeline: webhooks and manual checks, handled one after the
\* other; the clock stands still.
Next ==
    \/ \E t \in TaskIds, route \in Routes, rawBody \in RawBodies, shop \in Shops :
          \E hdr \in HeadersFor(rawBody) :
             Quiet /\ WebhookArrive(t, route, rawBody, hdr, shop, TRUE)
    \/ \E t \in TaskIds, ok \in BOOLEAN : MetaGetReturn(t, ok, TRUE)
    \/ \E t \in TaskIds, orderId \in OrderIds, shop \in Shops :
          Quiet /\ CheckOrderArrive(t, orderId, shop)
    \/ \E t \in TaskIds, how \in ReadOutcomes, order \in PlatformOrders :
          OrderGetReturn(t, how, order, TRUE)
    \/ \E t \in TaskIds, outcome \in RiskOutcomes : RiskRespond(t, outcome)
    \/ \E t \in TaskIds, how \in ReadOutcomes : TagGetReturn(t, how)
    \/ \E t \in TaskIds, ok \in BOOLEAN : TagPutReturn(t, ok)
    \/ \E t \in TaskIds : \E failed \in FailureSets(ResultFields(tasks[t].result)) :
          MetafieldsReturn(t, failed)
    \/ \E t \in TaskIds, how \in ReadOutcomes : NoteGetReturn(t, how)
    \/ \E t \in TaskIds, ok \in BOOLEAN : NotePutReturn(t, ok)
    \/ \E t \in TaskIds : \E failed \in FailureSets(ErrorFields(tasks[t].result, 0)) :
          SaveErrorReturn(t, failed)

Spec == Init /\ [][Next]_vars

\* The risk-service client and its cache: phone checks, manual checks,
\* connection tests and cache clears, interleaved, while time passes.
CacheConfigs ==
    { [DefaultConfig EXCEPT !.autoTagOrders = FALSE, !.addOrderNotes = FALSE],
      [DefaultConfig EXCEPT !.autoTagOrders = FALSE, !.addOrderNotes = FALSE,
                            !.apiKey = FALSE] }

InitCache == InitWith(CacheConfigs)

NextCache ==
    \/ \E t \in TaskIds, phone \in RequestPhones, atExpiry \in BOOLEAN :
          CheckPhoneArrive(t, phone, atExpiry)
    \/ \E t \in TaskIds, withKey \in BOOLEAN : TestConnectionArrive(t, withKey)
    \/ \E t \in TaskIds, outcome \in RiskOutcomes : ProbeRespond(t, outcome)
    \/ \E t \in TaskIds : CheckOrderArrive(t, "O1", "shop-a")
    \/ \E t \in TaskIds, order \in {OrderCod, OrderPrepaid}, atExpiry \in BOOLEAN :
          OrderGetReturn(t, "ok", order, atExpiry)
    \/ \E t \in TaskIds, outcome \in RiskOutcomes : RiskRespond(t, outcome)
    \/ \E t \in TaskIds : MetafieldsReturn(t, {})
    \/ \E t \in TaskIds : SaveErrorReturn(t, {})
    \/ \E phone \in RequestPhones \cup {None} : ClearCache(phone)
    \/ Tick
    \/ Sweep

SpecCache == InitCache /\ [][NextCache]_vars


\* The request of checkPhone in its two awaits, with the 20 s timer: the
\* timer is set before fetch is called and cleared when fetch resolves, which
\* is when the status line and the headers have arrived; the body is read
\* afterwards by response.json().
HeadersArrive(t) ==
    /\ tasks[t].pc = "fetch"
    /\ tasks' = [tasks EXCEPT ![t] = [Log(@, <<"clearTimeout">>) EXCEPT !.pc = "body"]]
    /\ UNCHANGED <<cfg, cache, now, tags, note, meta, served>>

\* response.json() settles: the body has arrived, or reading it failed
BodyArrive(t, outcome) ==
    /\ tasks[t].pc = "body"
    /\ outcome.how \in {"response", "error"}
    /\ Settle(t, outcome)

\* the timer fires while fetch is pending: controller.abort()
TimerAbort(t) ==
    /\ tasks[t].pc = "fetch"
    /\ Settle(t, Aborted)

\* fetch rejects: no connection, no response
FetchFails(t) ==
    /\ tasks[t].pc = "fetch"
    /\ Settle(t, Refused)

LiveConfigs == {[DefaultConfig EXCEPT !.autoTagOrders = FALSE, !.addOrderNotes = FALSE]}

InitLive == InitWith(LiveConfigs)

NextLive ==
    \/ \E t \in TaskIds, phone \in {PhoneA, PhoneB} : CheckPhoneArrive(t, phone, TRUE)
    \/ \E t \in TaskIds : HeadersArrive(t)
    \/ \E t \in TaskIds, outcome \in RiskOutcomes : BodyArrive(t, outcome)
    \/ \E t \in TaskIds : TimerAbort(t)
    \/ \E t \in TaskIds : FetchFails(t)

\* a timer that is set fires unless it is cleared; the risk service owes
\* nothing
SpecLive ==
    /\ InitLive
    /\ [][NextLive]_vars
    /\ \A t \in TaskIds : WF_vars(TimerAbort(t))

\* parseResponse on summaries around the thresholds: phone checks answered
\* with status 200 and a summary out of a grid of totals and ratios
SummaryTotals == {0, 1, 20}
SummaryRatios == {0, 49, 50, 51, 69, 70, 71, 100}
ClassifyBodies ==
    {ObjectBody(total, 0, 0, ratio, 0, <<>>) : total \in SummaryTotals, ratio \in SummaryRatios}

NextClassify ==
    \/ \E t \in TaskIds, phone \in {PhoneA, PhoneB} : CheckPhoneArrive(t, phone, TRUE)
    \/ \E t \in TaskIds, body \in ClassifyBodies : RiskRespond(t, Response(200, body))

SpecClassify == InitLive /\ [][NextClassify]_vars

\* sanitizePhone on phone texts of every shape: phone checks, some of them
\* for a phone that an earlier check has already normalized
NormalizeInputs ==
    { PhoneA, PhoneAIntl, PhoneB, PhoneShort, PhoneIntlDigits, PhoneSpaced,
      PhoneLandline, PhoneOldPrefix, PhoneIntlOldPrefix, PhoneTwelve, PhoneThirteen,
      PhoneIntlTwelve, PhoneLetters }

NextNormalize ==
    \/ \E t \in TaskIds, phone \in NormalizeInputs : CheckPhoneArrive(t, phone, TRUE)
    \/ \E t, u \in TaskIds :
          /\ tasks[u].key # Null
          /\ CheckPhoneArrive(t, tasks[u].key, TRUE)
    \/ \E t \in TaskIds : RiskRespond(t, Response(200, BodySafe))

SpecNormalize == InitLive /\ [][NextNormalize]_vars

\* extractPhone on orders with every combination of the four phone fields
\* present or not: manual checks of such orders
CandidateOrders ==
    { [NoOrder EXCEPT !.id = "O1", !.billing = b, !.shipping = sh, !.customer = c,
                      !.phone = p] :
        b \in {Null, PhoneA}, sh \in {Null, PhoneB}, c \in {Null, PhoneShort},
        p \in {Null, PhoneAIntl} }

NextExtract ==
    \/ \E t \in TaskIds : CheckOrderArrive(t, "O1", "shop-a")
    \/ \E t \in TaskIds, order \in CandidateOrders : OrderGetReturn(t, "ok", order, TRUE)
    \/ \E t \in TaskIds : RiskRespond(t, Response(200, BodySafe))
    \/ \E t \in TaskIds : MetafieldsReturn(t, {})
    \/ \E t \in TaskIds : SaveErrorReturn(t, {})

SpecExtract == InitLive /\ [][NextExtract]_vars

\* The annotation of one order by requests in flight at the same time:
\* webhooks for the COD order and manual checks of it, every call to the
\* platform succeeding.
CodBody == <<1, 1>>
SafeOrHigh == {Response(200, BodySafe), Response(200, BodyHigh)}

InitRace == InitWith({DefaultConfig})

NextRace ==
    \/ \E t \in TaskIds, route \in Routes :
          WebhookArrive(t, route, CodBody, Header(Hmac(apiSecret, CodBody)), "shop-a", TRUE)
    \/ \E t \in TaskIds : MetaGetReturn(t, TRUE, TRUE)
    \/ \E t \in TaskIds : CheckOrderArrive(t, "O1", "shop-a")
    \/ \E t \in TaskIds : OrderGetReturn(t, "ok", OrderCod, TRUE)
    \/ \E t \in TaskIds, outcome \in SafeOrHigh : RiskRespond(t, outcome)
    \/ \E t \in TaskIds : TagGetReturn(t, "ok")
    \/ \E t \in TaskIds : TagPutReturn(t, TRUE)
    \/ \E t \in TaskIds : MetafieldsReturn(t, {})
    \/ \E t \in TaskIds : NoteGetReturn(t, "ok")
    \/ \E t \in TaskIds : NotePutReturn(t, TRUE)

SpecRace == InitRace /\ [][NextRace]_vars

\* The same requests handled one after the other: checks and re-checks of
\* the COD order, every call to the platform succeeding.
NextRecheck ==
    \/ \E t \in TaskIds, route \in Routes :
          /\ Quiet
          /\ WebhookArrive(t, route, CodBody, Header(Hmac(apiSecret, CodBody)), "shop-a", TRUE)
    \/ \E t \in TaskIds : MetaGetReturn(t, TRUE, TRUE)
    \/ \E t \in TaskIds : Quiet /\ CheckOrderArrive(t, "O1", "shop-a")
    \/ \E t \in TaskIds : OrderGetReturn(t, "ok", OrderCod, TRUE)
    \/ \E t \in TaskIds, outcome \in SafeOrHigh \cup {Response(200, EmptyObject)} :
          RiskRespond(t, outcome)
    \/ \E t \in TaskIds : TagGetReturn(t, "ok")
    \/ \E t \in TaskIds : TagPutReturn(t, TRUE)
    \/ \E t \in TaskIds : MetafieldsReturn(t, {})
    \/ \E t \in TaskIds : NoteGetReturn(t, "ok")
    \/ \E t \in TaskIds : NotePutReturn(t, TRUE)

SpecRecheck == InitRace /\ [][NextRecheck]_vars

\* The automatic path alone: the orders-create webhook of the COD order,
\* then orders-updated webhooks of the same order, which may arrive while
\* the earlier one is being handled; metafield writes may fail.
NextAuto ==
    \/ \E t \in TaskIds :
          /\ served = 0
          /\ WebhookArrive(t, "create", CodBody, Header(Hmac(apiSecret, CodBody)),
                           "shop-a", TRUE)
    \/ \E t \in TaskIds :
          /\ served > 0
          /\ WebhookArrive(t, "updated", CodBody, Header(Hmac(apiSecret, CodBody)),
                           "shop-a", TRUE)
    \/ \E t \in TaskIds, ok \in BOOLEAN : MetaGetReturn(t, ok, TRUE)
    \/ \E t \in TaskIds, outcome \in {Response(200, BodySafe), Response(402, EmptyObject)} :
          RiskRespond(t, outcome)
    \/ \E t \in TaskIds : TagGetReturn(t, "ok")
    \/ \E t \in TaskIds : TagPutReturn(t, TRUE)
    \/ \E t \in TaskIds : \E failed \in FailureSets(ResultFields(tasks[t].result)) :
          MetafieldsReturn(t, failed)
    \/ \E t \in TaskIds : NoteGetReturn(t, "ok")
    \/ \E t \in TaskIds : NotePutReturn(t, TRUE)
    \/ \E t \in TaskIds : SaveErrorReturn(t, {})

SpecAuto == InitRace /\ [][NextAuto]_vars

\* ------------------------------------------------------------ properties
\* what a request did, read off the events of its handler
Has(log, e) == \E i \in DOMAIN log : log[i] = e
Precedes(log, a, b) ==
    \A i \in DOMAIN log : log[i] = b => \E j \in 1..(i - 1) : log[j] = a
Busy(task) == task.pc \notin {"idle", "done"}
IsWebhook(task) == task.kind \in Routes
\* the step is the arrival of the request that takes slot t
Arrives(t) == served' # served /\ Free(t)
\* the signature header is the digest of the raw body under the secret
Verifies(task) ==
    task.hdr.present /\ task.raw # <<>> /\ task.hdr.val = Hmac(apiSecret, task.raw)
Downstream ==
    {"token", "metaRead", "orderRead", "checkPhone", "cacheGet", "cacheDel", "risk",
     "cacheSet", "tagWrite", "metaWrite", "noteWrite"}
Effects == {"risk", "cacheSet", "orderRead", "tagWrite", "metaWrite", "noteWrite"}

\* ---- C1
CacheHoldsSuccessOf200 ==
    \A k \in DOMAIN cache :
        /\ cache[k].v.success
        /\ cache[k].v.error = ""
        /\ cache[k].v.httpStatus = 200
        /\ cache[k].v.forPhone = k
        /\ sanitizePhone(k) = k

\* the checkPhone of request t returns a Failure in this step
GetsFailure(t) ==
    /\ tasks'[t].result.error # ""
    /\ Arrives(t) \/ (Busy(tasks[t]) /\ tasks[t].result.error = "")

FailureLeavesCache ==
    \A t \in TaskIds :
        GetsFailure(t) =>
            \A k \in DOMAIN cache' : k \in DOMAIN cache /\ cache'[k] = cache[k]

ProbeLeavesCache ==
    \A t \in TaskIds :
        (tasks'[t].kind = "testConnection" /\ (Arrives(t) \/ tasks[t].pc = "probe")
         /\ tasks'[t] # tasks[t]) => cache' = cache

\* C1: under every interleaving of phone checks, manual checks, cache clears
\* and connection tests, each cache entry holds a Success made from a status
\* 200 response for the normalized phone that is its key; a step in which a
\* checkPhone returns a Failure adds no entry and changes none, and neither
\* does a connection test.
OnlySuccessIsCached ==
    /\ []CacheHoldsSuccessOf200
    /\ [][FailureLeavesCache /\ ProbeLeavesCache]_vars

\* a non-200 answer has been turned into a Failure while the cache holds
\* the Success of another check
FailureBesideCachedSuccess ==
    /\ cache # << >>
    /\ \E t \in TaskIds : tasks[t].pc = "done" /\ tasks[t].result.httpStatus = 402

\* ---- C2
\* request t reads the cache in this step
Reads(t) ==
    /\ Has(tasks'[t].log, "cacheGet")
    /\ Arrives(t) \/ (Busy(tasks[t]) /\ ~Has(tasks[t].log, "cacheGet"))

ServedFromCache(t, v) ==
    /\ tasks'[t].result = [v EXCEPT !.fromCache = TRUE]
    /\ tasks'[t].pc # "fetch"
    /\ ~Has(tasks'[t].log, "risk")

TakesNetworkPath(t) ==
    /\ tasks'[t].pc = "fetch"
    /\ Has(tasks'[t].log, "risk")
    /\ tasks'[t].result = NoResult

EntryExpiresAfterTTL ==
    \A k \in DOMAIN cache :
        /\ cache[k].t = cache[k].v.checkedAt + stdTTL
        /\ ~cache[k].v.fromCache

ReadFollowsEntry ==
    \A t \in TaskIds :
        Reads(t) =>
            LET k == tasks'[t].key
                kept == k \in DOMAIN cache /\ tasks'[t].kind # "checkOrder"
            IN  /\ (kept /\ now < cache[k].t) => ServedFromCache(t, cache[k].v)
                /\ (kept /\ now > cache[k].t) =>
                       TakesNetworkPath(t) /\ k \notin DOMAIN cache'
                /\ ~kept => TakesNetworkPath(t)

UnverifiedIsRejected ==
    \A t \in TaskIds :
        LET task == tasks[t]
        IN  (IsWebhook(task) /\ ~Verifies(task)) =>
                /\ task.resp = << IF ~task.hdr.present THEN 401
                                  ELSE IF task.raw = <<>> THEN 400
                                  ELSE 401 >>
                /\ \A e \in Downstream : ~Has(task.log, e)

\* ---- C4
\* C4: with a header and a raw body present, verifyWebhook lets the request
\* through when the header is the digest of the body, and answers 401 for
\* every other header text, of any length.
SignatureDecides ==
    \A t \in TaskIds :
        LET task == tasks[t]
        IN  (IsWebhook(task) /\ task.hdr.present /\ task.raw # <<>>) =>
                IF task.hdr.val = Hmac(apiSecret, task.raw)
                THEN task.out # "Rejected" /\ task.resp[1] = 200
                ELSE task.out = "Rejected" /\ task.resp = <<401>>

\* ---- C5
\* C5: the handler of an authenticated webhook sends the 200 first: before
\* the token lookup, before the metafield read, before checkPhone and its
\* request to the risk service.
AcknowledgedFirst ==
    \A t \in TaskIds :
        LET task == tasks[t]
        IN  (IsWebhook(task) /\ Verifies(task)) =>
                /\ task.log # <<>> /\ task.log[1] = "respond"
                /\ task.resp # <<>> /\ task.resp[1] = 200
                /\ \A e \in Downstream : Precedes(task.log, "respond", e)

\* an orders-updated webhook has got as far as the risk service
UpdateReachedRiskService ==
    \E t \in TaskIds :
        /\ tasks[t].kind = "updated"
        /\ Has(tasks[t].log, "token")
        /\ Has(tasks[t].log, "metaRead")
        /\ Has(tasks[t].log, "risk")

\* ---- C6
\* C6: an authenticated webhook gets one response, the 200, and no
\* exception leaves its handler unhandled.
OneResponseNothingEscapes ==
    \A t \in TaskIds :
        LET task == tasks[t]
        IN  (IsWebhook(task) /\ Verifies(task)) =>
                task.resp = <<200>> /\ ~task.unhandled

\* ---- C7
\* the checked field of the order reads "yes"
MarkedChecked == "checked" \in DOMAIN meta /\ meta["checked"] = "yes"

\* the metafield read of an orders-updated webhook returns for a marked order
UpdateOfMarkedOrder(t) ==
    /\ tasks[t].kind = "updated"
    /\ tasks[t].pc = "metaGet"
    /\ tasks'[t].pc # "metaGet"
    /\ tasks[t].order.id = "O1"
    /\ MarkedChecked

HaltsWhenMarked ==
    \A t \in TaskIds :
        UpdateOfMarkedOrder(t) =>
            /\ tasks'[t].pc = "done"
            /\ tasks'[t].out # "Failed" => tasks'[t].out = "AlreadyChecked"
            /\ tasks'[t].log = tasks[t].log
            /\ UNCHANGED <<cache, tags, note, meta>>

AlreadyCheckedDidNothing ==
    \A t \in TaskIds :
        tasks[t].out = "AlreadyChecked" =>
            /\ tasks[t].pc = "done"
            /\ \A e \in {"checkPhone", "cacheGet", "risk", "cacheSet", "orderRead",
                         "tagWrite", "metaWrite", "noteWrite"} : ~Has(tasks[t].log, e)

ExpectedGate(order) ==
    IF ~cfg.autoCheckEnabled THEN "SkippedDisabled"
    ELSE IF cfg.checkCodOnly /\ ~isCodOrder(order) THEN "SkippedNotCod"
    ELSE IF extractPhone(order) = Null THEN "SkippedNoPhone"
    ELSE "Checking"

\* processOrder has run for the webhook
RanProcessOrder(task) ==
    /\ IsWebhook(task)
    /\ Verifies(task)
    /\ Has(task.log, "token")
    /\ task.pc # "metaGet"
    /\ task.out \notin {"NoToken", "Crashed", "Failed", "AlreadyChecked"}

\* C8: processOrder stops at the first gate that applies, in the order
\* disabled, not-COD (in COD-only mode), no-phone; a skipped order has had no
\* checkPhone, no request to the risk service and no read or write of the
\* order; an order that passes all three reaches checkPhone.
GatesInOrder ==
    \A t \in TaskIds :
        LET task == tasks[t]
            gate == ExpectedGate(task.order)
        IN  RanProcessOrder(task) =>
                IF gate # "Checking"
                THEN /\ task.out = gate
                     /\ task.pc = "done"
                     /\ task.result = NoResult
                     /\ \A e \in Effects \cup {"checkPhone", "cacheGet"} :
                            ~Has(task.log, e)
                ELSE /\ Has(task.log, "checkPhone")
                     /\ task.out \notin {"SkippedDisabled", "SkippedNotCod",
                                         "SkippedNoPhone"}

\* an order that is neither COD nor has a phone was skipped as not COD
SkippedAtFirstOfTwoGates ==
    \E t \in TaskIds :
        /\ RanProcessOrder(tasks[t])
        /\ tasks[t].out = "SkippedNotCod"
        /\ extractPhone(tasks[t].order) = Null

\* ---- C9
\* C9: a manual check of an order with a valid phone, with the credential
\* configured, deletes the cache entry of the phone, then reads the cache,
\* finds nothing and sends a request to the risk service; its result is
\* never one served from the cache, whatever entry existed before and
\* whatever other checks run beside it.
ManualCheckIsFresh ==
    \A t \in TaskIds :
        LET task == tasks[t]
        IN  (task.kind = "checkOrder" /\ Has(task.log, "checkPhone") /\ cfg.apiKey
             /\ sanitizePhone(extractPhone(task.order)) # Null) =>
                /\ Precedes(task.log, "cacheDel", "cacheGet")
                /\ Has(task.log, "cacheGet")
                /\ Has(task.log, "risk")
                /\ ~task.result.fromCache

\* a manual check went to the risk service although another check had
\* stored a Success for the same phone earlier
ManualCheckPassedByEntry ==
    \E t, u \in TaskIds :
        /\ tasks[t].kind = "checkOrder"
        /\ Has(tasks[t].log, "risk")
        /\ u # t
        /\ Has(tasks[u].log, "cacheSet")
        /\ tasks[u].key = tasks[t].key
        /\ tasks[u].result.checkedAt < tasks[t].readAt
        /\ tasks[t].readAt < tasks[u].result.checkedAt + stdTTL

\* ---- C10
\* getOrder has returned an order with a phone to the manual check
ManualCheckOfOrderWithPhone(task) ==
    /\ task.kind = "checkOrder"
    /\ task.pc # "orderGet"
    /\ task.out \notin {"Rejected", "Crashed"}
    /\ task.order.id = "O1"
    /\ extractPhone(task.order) # Null

\* C10: a manual check of an order that exists and has a phone reaches
\* checkPhone and ends Annotated or ErrorRecorded, with auto-check on or off,
\* for COD and other orders, marked checked or not.
ManualCheckIsExempt ==
    \A t \in TaskIds :
        LET task == tasks[t]
        IN  ManualCheckOfOrderWithPhone(task) =>
                /\ Has(task.log, "checkPhone")
                /\ task.pc = "done" => task.out \in {"Annotated", "ErrorRecorded"}

\* a manual check annotated a non-COD order, already marked checked, in
\* COD-only mode
ManualCheckAnnotatedGatedOrder ==
    \E t \in TaskIds :
        /\ ManualCheckOfOrderWithPhone(tasks[t])
        /\ tasks[t].out = "Annotated"
        /\ cfg.checkCodOnly
        /\ ~isCodOrder(tasks[t].order)
        /\ Has(tasks[t].log, "metaWrite")
        /\ MarkedChecked

\* ---- C11
Count(log, e) == Cardinality({i \in DOMAIN log : log[i] = e})
IsOrderCheck(task) == task.kind \in Routes \cup {"checkOrder"}

\* the three fields saveError sets for the Failure of request t
ReducedFields(task) ==
    [checked |-> "error", error |-> task.result.error, checked_at |-> task.at]

FailedCheckWritesNoTagNoNote ==
    \A t \in TaskIds :
        LET task == tasks[t]
        IN  (IsOrderCheck(task) /\ task.result.error # "") =>
                /\ ~Has(task.log, "tagWrite")
                /\ ~Has(task.log, "noteWrite")
                /\ Count(task.log, "orderRead") = (IF task.kind = "checkOrder" THEN 1 ELSE 0)
                /\ Count(task.log, "metaWrite") = 1
                /\ task.pc \in {"saveError", "done"}
                /\ task.pc = "done" => task.out = "ErrorRecorded"

FailedCheckWritesReducedFields ==
    \A t \in TaskIds :
        (IsOrderCheck(tasks[t]) /\ Busy(tasks[t]) /\ tasks[t].result.error # "") =>
            /\ tags' = tags
            /\ note' = note
            /\ DOMAIN meta \subseteq DOMAIN meta'
            /\ \A k \in DOMAIN meta' :
                  \/ k \in DOMAIN meta /\ meta'[k] = meta[k]
                  \/ /\ k \in {"checked", "error", "checked_at"}
                     /\ meta'[k] = ReducedFields(tasks[t])[k]

\* C11: when checkPhone returns a Failure to processOrder or manualCheck,
\* the check writes nothing to the order but the metafields checked=error,
\* error and checked_at: it reads no order for tagging or for a note, and
\* tags and note stay as they were.
FailureWritesOnlyReducedFields ==
    /\ []FailedCheckWritesNoTagNoNote
    /\ [][FailedCheckWritesReducedFields]_vars

\* a 402 of the risk service has been recorded on the order
NoSubscriptionRecorded ==
    \E t \in TaskIds :
        /\ IsOrderCheck(tasks[t])
        /\ tasks[t].got.how = "response" /\ tasks[t].got.status = 402
        /\ tasks[t].out = "ErrorRecorded"
        /\ "checked" \in DOMAIN meta /\ meta["checked"] = "error"
        /\ "error" \in DOMAIN meta /\ meta["error"] = "no_subscription"
        /\ tags = <<"vip">>
        /\ note = <<>>

\* ---- C12
SavingSteps == {"tagGet", "tagPut", "metafields", "noteGet", "notePut"}

\* C12: in saveResult a tag step that throws still lets the metafield
\* writes be issued, and whatever the tag step and the metafield writes do,
\* the note step is attempted when notes are on; saveResult ends without
\* raising, at Annotated, with one order read per enabled tag and note step.
SaveResultStepsAreIndependent ==
    \A t \in TaskIds :
        LET task == tasks[t]
        IN  (IsOrderCheck(task) /\ task.result.success) =>
                /\ task.pc \in SavingSteps \cup {"done"}
                /\ ~task.unhandled
                /\ task.pc \in {"metafields", "noteGet", "notePut", "done"} =>
                       Count(task.log, "metaWrite") = 1
                /\ task.pc = "done" =>
                       /\ task.out = "Annotated"
                       /\ Count(task.log, "orderRead") =
                              (IF task.kind = "checkOrder" THEN 1 ELSE 0)
                              + (IF cfg.autoTagOrders THEN 1 ELSE 0)
                              + (IF cfg.addOrderNotes THEN 1 ELSE 0)

\* the tag write and one metafield write failed; the other metafields and
\* the note were written all the same
WroteDespiteFailures ==
    \E t \in TaskIds :
        /\ tasks[t].out = "Annotated"
        /\ {"tagWrite", "metaWrite"} \subseteq tasks[t].fails
        /\ "checked" \notin DOMAIN meta
        /\ "risk_level" \in DOMAIN meta
        /\ note # <<>>

\* ---- C13
TableKind(status) ==
    CASE status = 400 -> "bad_request"
      [] status = 401 -> "unauthorized"
      [] status = 402 -> "no_subscription"
      [] status = 403 -> "forbidden"
      [] status = 429 -> "rate_limited"
      [] status = 502 -> "external_error"
      [] status = 503 -> "service_unavailable"
      [] OTHER -> "api_error"

\* C13: for a response with a status other than 200, whatever its body,
\* checkPhone returns the Failure of the kind the table gives the status.
StatusDecidesKind ==
    \A t \in TaskIds :
        LET task == tasks[t]
        IN  (task.got.how = "response" /\ task.got.status # 200) =>
                /\ task.result.error = TableKind(task.got.status)
                /\ ~task.unhandled

\* ---- C14
\* C14: an aborted request makes checkPhone return the Failure timeout; a
\* transport error and a body that cannot be read make it return the
\* Failure connection_error; in each case the caller goes on with the
\* returned value.
TransportFailureIsReturned ==
    \A t \in TaskIds :
        LET task == tasks[t]
            unreadable == task.got.how = "response" /\ task.got.body.kind = "nonjson"
        IN  /\ task.got.how = "abort" => task.result = Failure("timeout")
            /\ (task.got.how = "error" \/ unreadable) =>
                   task.result = Failure("connection_error")
            /\ (task.got.how \in {"abort", "error"} \/ unreadable) =>
                   /\ ~task.unhandled
                   /\ task.out # "Crashed"
                   /\ task.pc \in {"saveError", "done"}

\* a check whose request was aborted returned timeout to its caller
AbortReturnedTimeout ==
    \E t \in TaskIds :
        /\ tasks[t].got.how = "abort"
        /\ tasks[t].result.error = "timeout"
        /\ tasks[t].pc = "done"

\* ---- C15
\* the Failure the validation of checkPhone returns for a phone, if any
ValidationFailure(phone) ==
    IF sanitizePhone(phone) = Null THEN "invalid_phone"
    ELSE IF ~cfg.apiKey THEN "no_api_key"
    ELSE ""

ValidationFailureIsImmediate ==
    \A t \in TaskIds :
        LET task == tasks[t]
            kind == ValidationFailure(extractPhone(task.order))
        IN  (IsOrderCheck(task) /\ Has(task.log, "checkPhone")) =>
                /\ kind # "" =>
                       /\ task.result = Failure(kind)
                       /\ task.got = NoOutcome
                       /\ task.key = Null
                       /\ \A e \in {"cacheGet", "risk", "cacheSet"} : ~Has(task.log, e)
                /\ kind = "" =>
                       /\ task.result.error \notin {"invalid_phone", "no_api_key"}
                       /\ Has(task.log, "cacheGet")

ValidationFailureLeavesCache ==
    \A t \in TaskIds :
        (GetsFailure(t) /\ tasks'[t].result.error \in {"invalid_phone", "no_api_key"}) =>
            cache' = cache

\* C15: a phone that does not normalize makes checkPhone return
\* invalid_phone, and a missing key makes it return no_api_key, at once: no
\* cache read, no request, no cache write, the cache as it was; a phone that
\* does not normalize gives invalid_phone with or without a key.
ValidationComesFirst ==
    /\ []ValidationFailureIsImmediate
    /\ [][ValidationFailureLeavesCache]_vars

\* an invalid phone was reported as such although the key is missing too
InvalidPhoneWithoutKey ==
    \E t \in TaskIds :
        /\ IsOrderCheck(tasks[t])
        /\ tasks[t].result.error = "invalid_phone"
        /\ ~cfg.apiKey
        /\ tasks[t].pc = "done"

\* ---- C16
\* C16: a checkPhone that has sent its request returns in the end, by the
\* timer if by nothing else.
EveryRequestReturns ==
    \A t \in TaskIds :
        (tasks[t].pc \in {"fetch", "body"}) ~> (tasks[t].pc = "done")

\* ---- C17
\* the tier the specification gives a summary, in its interval form
TierAsSpecified(level, total, ratio) ==
    /\ level \in {"unknown", "high", "medium", "safe"}
    /\ level = "unknown" <=> total = 0
    /\ level = "high" <=> (total # 0 /\ ratio < 50)
    /\ level = "medium" <=> (total # 0 /\ 50 =< ratio /\ ratio < 70)
    /\ level = "safe" <=> (total # 0 /\ ratio >= 70)

\* C17: every result parseResponse makes has the tier of its summary: unknown
\* for a total of 0 whatever the ratio, else high below 50, medium from 50
\* to below 70, safe from 70 on; the same summary always gets the same tier.
TierFollowsSummary ==
    /\ \A t \in TaskIds :
          tasks[t].result.success =>
              TierAsSpecified(tasks[t].result.riskLevel, tasks[t].result.totalParcel,
                              tasks[t].result.successRatio)
    /\ \A k \in DOMAIN cache :
          TierAsSpecified(cache[k].v.riskLevel, cache[k].v.totalParcel,
                          cache[k].v.successRatio)
    /\ \A t, u \in TaskIds :
          (tasks[t].result.success /\ tasks[u].result.success
           /\ tasks[t].result.totalParcel = tasks[u].result.totalParcel
           /\ tasks[t].result.successRatio = tasks[u].result.successRatio) =>
              tasks[t].result.riskLevel = tasks[u].result.riskLevel

\* a ratio of exactly 50 was classified medium and one of exactly 70 safe
BothBoundariesClassified ==
    \E t, u \in TaskIds :
        /\ tasks[t].result.totalParcel # 0 /\ tasks[t].result.successRatio = 50
        /\ tasks[t].result.riskLevel = "medium"
        /\ tasks[u].result.totalParcel # 0 /\ tasks[u].result.successRatio = 70
        /\ tasks[u].result.riskLevel = "safe"

\* ---- C18
Range(list) == {list[i] : i \in DOMAIN list}
NoDuplicates(list) == Cardinality(Range(list)) = Len(list)
TierTag(level) ==
    CASE level = "unknown" -> "fsbd:unknown"
      [] level = "high" -> "fsbd:high"
      [] level = "medium" -> "fsbd:medium"
      [] level = "safe" -> "fsbd:safe"

\* the tags the tagging step adds for a result
AddedTags(result) ==
    {"FraudShieldBD", TierTag(result.riskLevel)}
        \cup (IF result.reportCount > 0 THEN {"fsbd:reported"} ELSE {})

TagWriteIsUnion ==
    \A t \in TaskIds :
        tasks[t].pc = "tagPut" =>
            /\ Range(tasks[t].pend) = Range(tags) \cup AddedTags(tasks[t].result)
            /\ NoDuplicates(tasks[t].pend)

TagsOnlyGrow ==
    /\ Range(tags) \subseteq Range(tags')
    /\ tags' # tags => \E t \in TaskIds : tasks[t].pc = "tagPut" /\ tags' = tasks[t].pend

\* C18: the list the tagging step writes back holds the tags the order had
\* when the step read it, FraudShieldBD and the tier tag of the result, and
\* fsbd:reported when the report count is above 0, and nothing else, each
\* once; no tag of the order is ever removed.
TaggingWritesUnion ==
    /\ []TagWriteIsUnion
    /\ [][TagsOnlyGrow]_vars

\* an order tagged by a high-risk check with reports was tagged again by a
\* safe one: five tags, FraudShieldBD once
TaggedTwice ==
    /\ Range(tags) = {"vip", "FraudShieldBD", "fsbd:high", "fsbd:reported", "fsbd:safe"}
    /\ Len(tags) = 5
    /\ \E t \in TaskIds : tasks[t].out = "Annotated" /\ tasks[t].result.riskLevel = "safe"

\* ---- C19
IsPrefix(a, b) == Len(a) =< Len(b) /\ SubSeq(b, 1, Len(a)) = a

NoteWriteAppends ==
    \A t \in TaskIds :
        tasks[t].pc = "notePut" =>
            /\ IsPrefix(note, tasks[t].pend)
            /\ Len(tasks[t].pend) = Len(note) + 1
            /\ tasks[t].pend[Len(tasks[t].pend)] = Summary(tasks[t].result)

NoteOnlyGrows ==
    /\ IsPrefix(note, note')
    /\ note' # note => \E t \in TaskIds : tasks[t].pc = "notePut" /\ note' = tasks[t].pend

\* C19: the note the note step writes is the note it read followed by the
\* summary of the result, the summary alone when there was no note; the
\* note of the order is never replaced by something it is not a prefix of.
NoteIsAppended ==
    /\ []NoteWriteAppends
    /\ [][NoteOnlyGrows]_vars

\* a second check appended its summary to the note of the first
NoteHasTwoSummaries ==
    /\ Len(note) = 2
    /\ \E t \in TaskIds : tasks[t].out = "Annotated" /\ note[2] = Summary(tasks[t].result)

\* ---- C20
\* processOrder got a 200 with a summary from the risk service and every
\* call to the platform succeeded
CleanCheck(task) ==
    /\ task.kind \in Routes
    /\ task.got.how = "response"
    /\ task.got.status = 200
    /\ task.got.body.kind = "object"
    /\ task.fails = {}
    /\ task.pc = "done"

HasField(k, v) == k \in DOMAIN meta /\ meta[k] = v

\* C20: a webhook check answered with status 200, none of whose platform
\* calls failed, ends Annotated with the metafields checked=yes, risk_level
\* the tier of the summary, and the total, success, cancelled, ratio and
\* report count of the response; when the tag write was made, the tags
\* hold FraudShieldBD and the tier tag.
CleanCheckIsRecorded ==
    \A t \in TaskIds :
        LET task == tasks[t]
            body == task.got.body
        IN  CleanCheck(task) =>
                /\ task.out = "Annotated"
                /\ HasField("checked", "yes")
                /\ "risk_level" \in DOMAIN meta
                /\ TierAsSpecified(meta["risk_level"], body.total_parcel, body.success_ratio)
                /\ HasField("total_parcel", body.total_parcel)
                /\ HasField("success_parcel", body.success_parcel)
                /\ HasField("cancel_parcel", body.cancelled_parcel)
                /\ HasField("success_ratio", body.success_ratio)
                /\ HasField("report_count", body.reports)
                /\ (cfg.autoTagOrders /\ Has(task.log, "tagWrite")) =>
                       {"FraudShieldBD", TierTag(meta["risk_level"])} \subseteq Range(tags)

\* the COD order with phone 01712345678, answered 20/16/4/80, is safe
SafeOrderRecorded ==
    \E t \in TaskIds :
        /\ CleanCheck(tasks[t])
        /\ tasks[t].order = OrderCod
        /\ tasks[t].key = PhoneA
        /\ tasks[t].got.body = BodySafe
        /\ HasField("checked", "yes")
        /\ HasField("risk_level", "safe")
        /\ HasField("success_ratio", 80)
        /\ {"FraudShieldBD", "fsbd:safe"} \subseteq Range(tags)

\* ---- C21
\* the phone text a check was made for and what sanitizePhone made of it
\* (the API key is set, so the value returned is the cache key)
Normalizes(task) == Has(task.log, "checkPhone")

\* C21: the value sanitizePhone returns for a phone text is returned
\* unchanged when sanitizePhone is applied to it: in every check whose phone
\* is normalized, normalizing the result gives the result, and a check made
\* for the key of another check has that key as its key.
NormalizeIsIdempotent ==
    \A t \in TaskIds :
        (Normalizes(tasks[t]) /\ tasks[t].key # Null) =>
            /\ sanitizePhone(tasks[t].key) = tasks[t].key
            /\ \A u \in TaskIds :
                  (Normalizes(tasks[u]) /\ tasks[u].phone = tasks[t].key) =>
                      tasks[u].key = tasks[u].phone

\* a check for the key that a check of +8801712345678 produced
NormalizedAgain ==
    \E t, u \in TaskIds :
        /\ t # u
        /\ tasks[t].phone = PhoneAIntl
        /\ tasks[t].key = PhoneA
        /\ Normalizes(tasks[u])
        /\ tasks[u].phone = tasks[t].key
        /\ tasks[u].key = PhoneA

\* ---- C22
RECURSIVE DigitsOf(_)
DigitsOf(s) ==
    IF s = <<>> THEN <<>>
    ELSE IF Head(s) \in Digit THEN <<Head(s)>> \o DigitsOf(Tail(s))
    ELSE DigitsOf(Tail(s))

Rewritten(d) ==
    IF Len(d) = 13 /\ d[1] = "8" /\ d[2] = "8" /\ d[3] = "0"
    THEN <<"0">> \o [i \in 1..10 |-> d[i + 3]]
    ELSE d

\* 0, then 1, then a digit from 3 to 9, then 8 digits
LocalMobile(s) ==
    /\ Len(s) = 11
    /\ s[1] = "0"
    /\ s[2] = "1"
    /\ s[3] \in Digit \ {"0", "1", "2"}
    /\ \A i \in 4..11 : s[i] \in Digit

\* 0, then a digit from 3 to 9, then 8 digits, 11 digits in all
LocalMobileAsWorded(s) ==
    /\ Len(s) = 11
    /\ s[1] = "0"
    /\ s[2] \in Digit \ {"0", "1", "2"}
    /\ \A i \in 3..11 : s[i] \in Digit

\* C22 as worded: the value returned is the rewritten digits when they are
\* a 0, a digit from 3 to 9 and 8 more digits, and nothing otherwise.
NormalizeAcceptsWordedPattern ==
    \A t \in TaskIds :
        Normalizes(tasks[t]) =>
            LET r == Rewritten(DigitsOf(tasks[t].phone))
            IN  /\ tasks[t].key = (IF LocalMobileAsWorded(r) THEN r ELSE Null)
                /\ tasks[t].key # Null => LocalMobileAsWorded(tasks[t].key)

\* C22: the value returned is the digits of the text, with a leading 880
\* of 13 digits replaced by 0, when these are 01, a digit from 3 to 9 and 8
\* more digits, and nothing otherwise; every value returned has that form.
NormalizeAcceptsLocalMobile ==
    \A t \in TaskIds :
        Normalizes(tasks[t]) =>
            LET r == Rewritten(DigitsOf(tasks[t].phone))
            IN  /\ tasks[t].key = (IF LocalMobile(r) THEN r ELSE Null)
                /\ tasks[t].key # Null => LocalMobile(tasks[t].key)

\* one text was accepted after stripping, one after the rewrite, and one of
\* 13 digits with the prefix was refused for its fourth digit
AcceptedAndRefused ==
    \E t, u \in TaskIds :
        /\ tasks[t].phone = PhoneSpaced /\ tasks[t].key = PhoneA
        /\ tasks[u].phone = PhoneIntlOldPrefix
        /\ tasks[u].key = Null
        /\ tasks[u].result.error = "invalid_phone"

\* ---- C23
\* C23 as worded: +8801712345678 is refused, 8801712345678 gives
\* 01712345678 and 017123 is refused.
PlusPrefixedIsRefused ==
    \A t \in TaskIds :
        Normalizes(tasks[t]) =>
            /\ tasks[t].phone = PhoneAIntl => tasks[t].key = Null
            /\ tasks[t].phone = PhoneIntlDigits => tasks[t].key = PhoneA
            /\ tasks[t].phone = PhoneShort => tasks[t].key = Null

\* C23: +8801712345678 and 8801712345678 both give 01712345678, and 017123
\* is refused.
PlusPrefixedIsAccepted ==
    \A t \in TaskIds :
        Normalizes(tasks[t]) =>
            /\ tasks[t].phone = PhoneAIntl => tasks[t].key = PhoneA
            /\ tasks[t].phone = PhoneIntlDigits => tasks[t].key = PhoneA
            /\ tasks[t].phone = PhoneShort =>
                  tasks[t].key = Null /\ tasks[t].result.error = "invalid_phone"

\* the text with the plus sign and the short text have both been checked
PlusPrefixedAndShortChecked ==
    \E t, u \in TaskIds :
        /\ tasks[t].phone = PhoneAIntl /\ tasks[t].key = PhoneA
        /\ tasks[u].phone = PhoneShort /\ tasks[u].out = "Responded"

\* ---- C24
\* the phone fields of an order, highest priority first
Candidates(order) == <<order.billing, order.shipping, order.customer, order.phone>>

\* the check has the order and has looked for its phone
LookedForPhone(task) ==
    /\ task.kind = "checkOrder"
    /\ task.order.id = "O1"
    /\ task.pc \notin {"idle", "orderGet"}

\* C24: the phone a check of an order is made for is the first of billing,
\* shipping, customer and order phone that is not empty, whatever the ones
\* after it hold, and the order has no phone exactly when all four are
\* empty.
FirstCandidateWins ==
    \A t \in TaskIds :
        LET task == tasks[t]
            cand == Candidates(task.order)
        IN  LookedForPhone(task) =>
                /\ task.out = "NoPhone" <=> \A i \in 1..4 : cand[i] = Null
                /\ task.out # "NoPhone" =>
                      \E i \in 1..4 :
                          /\ cand[i] # Null
                          /\ \A j \in 1..(i - 1) : cand[j] = Null
                          /\ Has(task.log, "checkPhone")
                          /\ task.phone = cand[i]

\* the customer's phone, which is not a valid one, was used although the
\* order's own phone field holds a valid one
ThirdCandidateUsed ==
    \E t \in TaskIds :
        /\ LookedForPhone(tasks[t])
        /\ tasks[t].order.billing = Null
        /\ tasks[t].order.shipping = Null
        /\ tasks[t].order.customer = PhoneShort
        /\ tasks[t].order.phone = PhoneAIntl
        /\ tasks[t].phone = PhoneShort
        /\ tasks[t].result.error = "invalid_phone"

\* ---- C25
\* a call of clearCache on its own: with a phone it deletes the entry under
\* the normalized phone and no other, without one it deletes all
ClearRemovesItsEntry ==
    \A phone \in RequestPhones \cup {None} :
        ClearCache(phone) =>
            IF phone = None \/ phone = Null THEN cache' = << >>
            ELSE LET k == Rewritten(DigitsOf(phone))
                 IN  /\ DOMAIN cache' = DOMAIN cache \ {k}
                     /\ \A j \in DOMAIN cache' : cache'[j] = cache[j]

\* a key comes into the cache only by the store of a check for that key
KeyEntersByStore ==
    \A k \in DOMAIN cache' \ DOMAIN cache :
        \E t \in TaskIds :
            /\ Busy(tasks[t])
            /\ tasks[t].key = k
            /\ Has(tasks'[t].log, "cacheSet")
            /\ ~Has(tasks[t].log, "cacheSet")

\* a check that reads the cache when its key is not in it, or after the
\* clearCache of its own manual check, goes to the risk service
ReadOfClearedKeyFetches ==
    \A t \in TaskIds :
        (Reads(t) /\ (tasks'[t].key \notin DOMAIN cache \/ Has(tasks'[t].log, "cacheDel")))
            => TakesNetworkPath(t)

\* C25: clearCache(phone) deletes the entry of the normalized phone and
\* leaves the others as they are, clearCache() deletes every entry; the
\* key stays out of the cache until a check stores it again, and the next
\* check for the phone, finding no entry, makes a request.
ClearCacheForcesFreshLookup ==
    [][ClearRemovesItsEntry /\ KeyEntersByStore /\ ReadOfClearedKeyFetches]_vars

\* two checks stored their results and, before either could expire, the
\* entry of the first was cleared while that of the second stayed
OneEntryCleared ==
    \E t, u \in TaskIds :
        /\ tasks[t].key = PhoneA /\ Has(tasks[t].log, "cacheSet")
        /\ tasks[u].key = PhoneB /\ Has(tasks[u].log, "cacheSet")
        /\ now = 0
        /\ DOMAIN cache = {PhoneB}
        /\ cache[PhoneB].v = tasks[u].result

\* ---- C26
\* request t stores its result in this step
Stores(t) ==
    /\ Busy(tasks[t])
    /\ Has(tasks'[t].log, "cacheSet")
    /\ ~Has(tasks[t].log, "cacheSet")

\* a check that misses makes its request also while another check's
\* request for the same phone is in flight
MissFetchesBesideFetch ==
    \A t, u \in TaskIds :
        ( /\ t # u
          /\ Reads(t)
          /\ tasks[u].pc = "fetch"
          /\ tasks[u].key = tasks'[t].key
          /\ tasks'[t].key \notin DOMAIN cache ) => TakesNetworkPath(t)

\* a store replaces whatever entry the key has
LastStoreWins ==
    \A t \in TaskIds :
        Stores(t) =>
            /\ tasks[t].key \in DOMAIN cache'
            /\ cache'[tasks[t].key] = Entry(tasks'[t].result, now)

\* C26: nothing keeps a check from missing and fetching while another
\* check of the same phone is between its miss and its store, and each
\* store replaces the entry, so the cache holds the result stored last.
MissFetchStoreIsUnlocked ==
    [][MissFetchesBesideFetch /\ LastStoreWins]_vars

\* two checks of 01712345678 both missed, both made their request and
\* both stored; the answers differ and the cache holds one of them
BothFetchedSamePhone ==
    \E t, u \in TaskIds :
        /\ t # u
        /\ tasks[t].key = PhoneA /\ tasks[u].key = PhoneA
        /\ Has(tasks[t].log, "risk") /\ Has(tasks[u].log, "risk")
        /\ Has(tasks[t].log, "cacheSet") /\ Has(tasks[u].log, "cacheSet")
        /\ tasks[t].result.riskLevel # tasks[u].result.riskLevel
        /\ PhoneA \in DOMAIN cache
        /\ cache[PhoneA].v = tasks[u].result

\* ---- C27
\* what is written is what the writer made of its own read
TagWriteReplaces ==
    \A t \in TaskIds :
        /\ (tasks[t].pc = "tagGet" /\ tasks'[t].pc = "tagPut") =>
              Range(tasks'[t].pend) = Range(tags) \cup AddedTags(tasks[t].result)
        /\ (tasks[t].pc = "tagPut" /\ tasks'[t].pc # "tagPut") => tags' = tasks[t].pend

NoteWriteReplaces ==
    \A t \in TaskIds :
        /\ (tasks[t].pc = "noteGet" /\ tasks'[t].pc = "notePut") =>
              tasks'[t].pend = note \o <<Summary(tasks[t].result)>>
        /\ (tasks[t].pc = "notePut" /\ tasks'[t].pc # "notePut") => note' = tasks[t].pend

\* C27: the tags and the note a request writes are computed from the
\* order as the request read it and replace what the platform holds at the
\* time of the write, so that what another request wrote between the read
\* and the write is lost.
AnnotationIsReadModifyWrite ==
    [][TagWriteReplaces /\ NoteWriteReplaces]_vars

\* a webhook and a manual check have both annotated the order, every write
\* succeeded; the tier tag of one and the summary of one are not on the order
UpdateLost ==
    \E t, u \in TaskIds :
        /\ tasks[t].kind = "create" /\ tasks[u].kind = "checkOrder"
        /\ tasks[t].out = "Annotated" /\ tasks[u].out = "Annotated"
        /\ tasks[t].fails = {} /\ tasks[u].fails = {}
        /\ \E w \in {t, u} : TierTag(tasks[w].result.riskLevel) \notin Range(tags)
        /\ \E w \in {t, u} : Summary(tasks[w].result) \notin Range(note)

\* ---- C28
\* C28: with one orders-create webhook and orders-updated webhooks of the
\* same order and no manual check, the order's note holds at most one
\* summary and at most one of the webhooks has annotated the order.
AutomaticPathAnnotatesOnce ==
    /\ Len(note) =< 1
    /\ Cardinality({t \in TaskIds : IsWebhook(tasks[t]) /\ tasks[t].out = "Annotated"}) =< 1

\* ---- C29
TierTags == {"fsbd:unknown", "fsbd:high", "fsbd:medium", "fsbd:safe"}

\* C29: when no request is being handled, the order has at most one of
\* the tier tags, and when it has one and a risk_level metafield, the tag is
\* the one of that level.
OneTierTagAgreeingWithField ==
    Quiet =>
        /\ Cardinality(Range(tags) \cap TierTags) =< 1
        /\ \A tag \in Range(tags) \cap TierTags :
              "risk_level" \in DOMAIN meta => tag = TierTag(meta["risk_level"])

\* ---- C30
\* the metafield read of an orders-updated webhook returns, and the order
\* is not marked checked=yes: the field is absent or holds another value
UpdateOfUnmarkedOrder(t) ==
    /\ tasks[t].kind = "updated"
    /\ tasks[t].pc = "metaGet"
    /\ tasks'[t].pc # "metaGet"
    /\ tasks'[t].out # "Failed"
    /\ tasks[t].order.id = "O1" => ~MarkedChecked

\* the handler goes on to processOrder, which runs its gates and, for an
\* order that passes them, calls checkPhone
UnmarkedIsProcessed ==
    \A t \in TaskIds :
        UpdateOfUnmarkedOrder(t) =>
            LET gate == ExpectedGate(tasks[t].order)
            IN  /\ tasks'[t].out # "AlreadyChecked"
                /\ IF gate # "Checking"
                   THEN tasks'[t].out = gate /\ tasks'[t].pc = "done"
                   ELSE Has(tasks'[t].log, "checkPhone")

\* an update that called checkPhone has written the metafields by the time
\* it ends: those of the result or those of the error
ProcessedUpdateRewritesFields ==
    \A t \in TaskIds :
        LET task == tasks[t]
        IN  (task.kind = "updated" /\ task.pc = "done" /\ Has(task.log, "checkPhone")) =>
                /\ Has(task.log, "metaWrite")
                /\ task.fails = {} =>
                      /\ HasField("checked", IF task.result.success THEN "yes" ELSE "error")
                      /\ ~task.result.success => HasField("error", task.result.error)
                      /\ task.result.success => HasField("risk_level", task.result.riskLevel)

\* C30: an orders-updated webhook stops at the re-check gate only when the
\* checked field is yes; with the field absent or holding error the
\* handler runs the gates of processOrder and, for an order that passes,
\* calls checkPhone and writes the order's metafields again.
UpdateRechecksUnlessYes ==
    /\ []ProcessedUpdateRewritesFields
    /\ [][UnmarkedIsProcessed]_vars

\* an order whose earlier check had failed was checked again by an update
\* webhook, which wrote checked=yes over checked=error
ErrorOrderCheckedAgain ==
    \E t \in TaskIds :
        /\ tasks[t].kind = "updated"
        /\ tasks[t].out = "Annotated"
        /\ Has(tasks[t].log, "risk")
        /\ HasField("error", "no_subscription")
        /\ HasField("checked", "yes")

=============================================================================
